---- MODULE Spec2Model ----
(***************************************************************************)
(* Model of Exercise-1/run.py: the Wikipedia "top articles" pipeline.      *)
(*                                                                         *)
(*   __api__                 bounded-retry HTTP GET (lines 26-45)          *)
(*   get_top_wiki_articles   builds the path and calls __api__ (14-23)     *)
(*   main                    collection loop, top-20 selection, per-article*)
(*                           densification with forward fill, the two      *)
(*                           "no data" errors (48-128)                     *)
(*                                                                         *)
(* Dates are day numbers; an article is a number (the groupby index is     *)
(* sorted, so article order is numeric order); a views value is a natural  *)
(* number or NaN.  A DataFrame is a sequence of rows.                      *)
(***************************************************************************)
EXTENDS Integers, Sequences, FiniteSets

\* ---------------------------------------------------------------- bounds
MaxDays == 3
MaxRetries == 3
NumArticles == 21

\* ------------------------------------------------------ program constants
DefaultRetries == 3
TopN == 20

\* pandas' missing value in the views column
NaN == -1

\* ------------------------------------------------------------- helpers
Last(s) == s[Len(s)]

RECURSIVE Flatten(_)
Flatten(ss) == IF ss = <<>> THEN <<>> ELSE Head(ss) \o Flatten(Tail(ss))

Count(s, x) == Cardinality({k \in 1..Len(s) : s[k] = x})

\* ------------------------------------------------- the inputs (API answers)
\* Article 1 is the one whose observations vary freely; articles
\* 2..NumArticles are the "crowd" that fills the ranking, so that the top-20
\* cut excludes somebody.
FreeViews == {NaN, 10, 30}

Row(a, v) == [article |-> a, views |-> v]

\* the crowd's rows, by ascending article, every one with the same views
CrowdRows(v) == [k \in 1..(NumArticles - 1) |-> Row(k + 1, v)]

\* The "articles" list of one day.  Every article occurs at most once in it
\* (DailyRecord is keyed by (date, article) within a day's batch).  Article 1
\* is missing, without views, or has 10 or 30 views; the crowd is missing or
\* has 20 views each; in one more batch the whole crowd is without views.
Batches ==
    {f \o c : f \in {<<>>} \cup {<<Row(1, v)>> : v \in FreeViews},
              c \in {<<>>, CrowdRows(20)}}
    \cup {<<Row(1, 10)>> \o CrowdRows(NaN)}

\* A decoded JSON object: the set of its keys, and the value of "items", a
\* list of objects of which only the key "articles" matters.
Item(b) == [keys |-> {"articles"}, articles |-> b]
GoodPayload(b) == [keys |-> {"items"}, items |-> <<Item(b)>>]
EmptyDict == [keys |-> {}, items |-> <<>>]
NoItems == [keys |-> {"detail"}, items |-> <<>>]
ItemsEmpty == [keys |-> {"items"}, items |-> <<>>]
NoArticles == [keys |-> {"items"}, items |-> <<[keys |-> {"rank"}, articles |-> <<>>]>>]
MalformedPayloads == {EmptyDict, NoItems, ItemsEmpty, NoArticles}
Payloads == {GoodPayload(b) : b \in Batches} \cup MalformedPayloads

\* What one attempt can end in: a 2xx answer with a JSON body, or an exception
\* of requests.get / raise_for_status / response.json.
FailureKinds == {"ConnectionError", "HTTPError", "JSONDecodeError", "ValueError"}

\* The exception classes each failure is an instance of.  response.json raises
\* requests' JSONDecodeError (both a RequestException and a ValueError) or, in
\* older releases, a plain ValueError.
ExcBases(kind) ==
    CASE kind = "ConnectionError" -> {"RequestException"}
      [] kind = "HTTPError" -> {"RequestException"}
      [] kind = "JSONDecodeError" -> {"RequestException", "ValueError"}
      [] kind = "ValueError" -> {"ValueError"}

CaughtOnlyRequestException(kind) == "RequestException" \in ExcBases(kind)

\* except (requests.RequestException, ValueError)
Caught(kind) == ExcBases(kind) \cap {"RequestException", "ValueError"} # {}

VARIABLES
    retries,        \* __api__'s parameter
    api_pc,         \* "idle" | "try" | "sleep" | "returned" | "raised"
    attempt,        \* the loop variable of __api__
    response,       \* the latest attempt: its status ("none", "ok" or the failure
                    \* raised) and the JSON body it decoded
    result,         \* __api__'s return value: <<>> is None, <<p>> a payload
    log,            \* the calls and sleeps of the current __api__ call, in order
    start_date, end_date,
    pc,             \* main's position
    i,              \* index of the loop's current date in dates
    data_frames,    \* the list of per-day frames
    df,             \* the concatenated frame (line 84)
    timeline,       \* what the run did, in order: "fetch" (line 66), "gave_up"
                    \* (the print of line 44), "skip" (the print of line 73),
                    \* "pause" (the sleep of line 79)
    last_values,    \* Series article -> ranking key, as rows sorted by article
    top_articles,   \* list of articles
    df_plot,        \* the dense frame
    exc             \* the exception main ended with, or "none"

apiVars == <<retries, api_pc, attempt, response, result, log>>
mainVars == <<start_date, end_date, pc, i, data_frames, df, timeline, last_values,
              top_articles, df_plot, exc>>
vars == <<retries, api_pc, attempt, response, result, log,
          start_date, end_date, pc, i, data_frames, df, timeline, last_values,
          top_articles, df_plot, exc>>

\* ------------------------------------------------------------- __api__
NoResponse == [status |-> "none", body |-> EmptyDict]

SleepAfterEvery(a, r) == TRUE

\* line 42: `if attempt < retries - 1`
SleepAfter(a, r) == a < r - 1

\* requests.get, raise_for_status and response.json all succeed: return the
\* decoded payload.
ApiSucceed ==
    /\ api_pc = "try"
    /\ attempt < retries
    /\ \E p \in Payloads :
         /\ result' = <<p>>
         /\ response' = [status |-> "ok", body |-> p]
    /\ log' = Append(log, "call")
    /\ api_pc' = "returned"
    /\ UNCHANGED <<retries, attempt>>
    /\ UNCHANGED mainVars

\* The attempt raises.  A caught exception is printed; a sleep follows unless
\* this was the last attempt.  Any other exception leaves __api__.
ApiFail ==
    /\ api_pc = "try"
    /\ attempt < retries
    /\ \E kind \in FailureKinds :
         /\ response' = [status |-> kind, body |-> EmptyDict]
         /\ IF Caught(kind)
            THEN IF SleepAfter(attempt, retries)
                 THEN api_pc' = "sleep" /\ attempt' = attempt
                 ELSE api_pc' = "try" /\ attempt' = attempt + 1
            ELSE api_pc' = "raised" /\ attempt' = attempt
    /\ log' = Append(log, "call")
    /\ UNCHANGED <<retries, result>>
    /\ UNCHANGED mainVars

\* time.sleep(delay), then the next iteration
ApiSleep ==
    /\ api_pc = "sleep"
    /\ log' = Append(log, "sleep")
    /\ attempt' = attempt + 1
    /\ api_pc' = "try"
    /\ UNCHANGED <<retries, response, result>>
    /\ UNCHANGED mainVars

\* The loop is exhausted: print the final failure and return None.
ApiGiveUp ==
    /\ api_pc = "try"
    /\ attempt >= retries
    /\ result' = <<>>
    /\ api_pc' = "returned"
    /\ timeline' = Append(timeline, "gave_up")
    /\ UNCHANGED <<retries, attempt, response, log>>
    /\ UNCHANGED <<start_date, end_date, pc, i, data_frames, df, last_values,
                   top_articles, df_plot, exc>>

\* ------------------------------------------------- main: pure helpers
\* pd.date_range(start_date, end_date, freq='D')
DateRange(s, e) == [k \in 1..(e - s + 1) |-> s + k - 1]

dates == DateRange(start_date, end_date)

\* pd.DataFrame(data["items"][0]["articles"]) with df_day["date"] = date
DayFrame(p, date) ==
    LET b == p.items[1].articles
    IN [k \in 1..Len(b) |-> [article |-> b[k].article, views |-> b[k].views, date |-> date]]

\* pd.concat(data_frames, ignore_index=True)
Concat(frames) == Flatten(frames)

\* df.sort_values("date"): rows by ascending date.  Rows of one date keep
\* their order here; no two rows of one article share a date, so the order
\* within a date does not reach a group's last value.
RECURSIVE SortFrom(_, _, _)
SortFrom(frame, d, e) ==
    IF d > e THEN <<>>
    ELSE SelectSeq(frame, LAMBDA r : r.date = d) \o SortFrom(frame, d + 1, e)

SortByDate(frame) == SortFrom(frame, start_date, end_date)

\* the sorted group keys of groupby("article")
RECURSIVE SortedSeq(_)
SortedSeq(S) ==
    IF S = {} THEN <<>>
    ELSE LET m == CHOOSE x \in S : \A y \in S : x <= y
         IN <<m>> \o SortedSeq(S \ {m})

ArticlesOf(frame) == {frame[k].article : k \in 1..Len(frame)}

\* the group's last value, NaN or not
GroupLastRecord(sorted, a) ==
    LET g == SelectSeq(sorted, LAMBDA r : r.article = a)
    IN Last(g).views

\* GroupBy.last(): the last value of the group that is not NaN, NaN if none
GroupLast(sorted, a) ==
    LET g == SelectSeq(sorted, LAMBDA r : r.article = a /\ r.views # NaN)
    IN IF g = <<>> THEN NaN ELSE Last(g).views

\* df.sort_values("date").groupby("article")["views"].last()
LastValues(frame) ==
    LET sorted == SortByDate(frame)
        keys == SortedSeq(ArticlesOf(frame))
    IN [k \in 1..Len(keys) |-> Row(keys[k], GroupLast(sorted, keys[k]))]

\* the entries by descending value, equal values in index order
RECURSIVE SortDesc(_)
SortDesc(s) ==
    IF s = <<>> THEN <<>>
    ELSE LET k == CHOOSE j \in 1..Len(s) :
                      /\ \A m \in 1..Len(s) : s[m].views <= s[j].views
                      /\ \A m \in 1..(j - 1) : s[m].views < s[j].views
         IN <<s[k]>> \o SortDesc(SubSeq(s, 1, k - 1) \o SubSeq(s, k + 1, Len(s)))

Prefix(s, n) == SubSeq(s, 1, IF n < Len(s) THEN n ELSE Len(s))

NLargestDropNaN(series, n) ==
    Prefix(SortDesc(SelectSeq(series, LAMBDA r : r.views # NaN)), n)

\* Series.nlargest(n): the n greatest values, then NaN entries up to n
NLargest(series, n) ==
    LET dropped == SelectSeq(series, LAMBDA r : r.views # NaN)
        nan_index == SelectSeq(series, LAMBDA r : r.views = NaN)
    IN IF n <= 0 THEN <<>> ELSE Prefix(SortDesc(dropped) \o nan_index, n)

\* last_values.nlargest(20).index.tolist()
TopArticles(series) ==
    LET top == NLargest(series, TopN)
    IN [k \in 1..Len(top) |-> top[k].article]

Range(s) == {s[k] : k \in 1..Len(s)}

\* df[df["article"].isin(top_articles)]
DfTop(frame, top) == SelectSeq(frame, LAMBDA r : r.article \in Range(top))

MergeInner(scaffold, article_df) ==
    Flatten([k \in 1..Len(scaffold) |->
        LET m == SelectSeq(article_df, LAMBDA r : r.date = scaffold[k])
        IN [j \in 1..Len(m) |-> [date |-> scaffold[k], views |-> m[j].views]]])

\* article_full.merge(article_df[["date", "views"]], on="date", how="left"):
\* every scaffold date in order, once per matching row, once with NaN if none
MergeLeft(scaffold, article_df) ==
    Flatten([k \in 1..Len(scaffold) |->
        LET m == SelectSeq(article_df, LAMBDA r : r.date = scaffold[k])
        IN IF m = <<>> THEN <<[date |-> scaffold[k], views |-> NaN]>>
           ELSE [j \in 1..Len(m) |-> [date |-> scaffold[k], views |-> m[j].views]]])

RECURSIVE BFillFrom(_, _)
BFillFrom(rows, nxt) ==
    IF rows = <<>> THEN <<>>
    ELSE LET r == Last(rows)
             v == IF r.views = NaN THEN nxt ELSE r.views
         IN Append(BFillFrom(SubSeq(rows, 1, Len(rows) - 1), v),
                   [date |-> r.date, views |-> v])

BFill(rows, prev) == BFillFrom(rows, NaN)

\* Series.ffill(): a NaN takes the last value before it that is not NaN
RECURSIVE FFill(_, _)
FFill(rows, prev) ==
    IF rows = <<>> THEN <<>>
    ELSE LET v == IF Head(rows).views = NaN THEN prev ELSE Head(rows).views
         IN <<[date |-> Head(rows).date, views |-> v]>> \o FFill(Tail(rows), v)

\* lines 96-100: one article's dense series
ArticleFull(frame_top, article) ==
    LET article_df == SelectSeq(frame_top, LAMBDA r : r.article = article)
        filled == FFill(MergeLeft(DateRange(start_date, end_date), article_df), NaN)
    IN [k \in 1..Len(filled) |->
           [date |-> filled[k].date, views |-> filled[k].views, article |-> article]]

\* lines 92-103
DfPlot(frame, top) ==
    Flatten([k \in 1..Len(top) |-> ArticleFull(DfTop(frame, top), top[k])])

\* df_top.dropna(subset=["views"])
ValidViews(frame, top) == SelectSeq(DfTop(frame, top), LAMBDA r : r.views # NaN)

\* ------------------------------------------------- main: the collection loop
TotalDataLoss == "ValueError: no data collected for the date range"
EmptyAfterFiltering == "ValueError: no views data"

data == result[1]

\* line 66: get_top_wiki_articles(...) with the default retries and delay
LoopFetch ==
    /\ pc = "loop"
    /\ i <= Len(dates)
    /\ pc' = "in_api"
    /\ timeline' = Append(timeline, "fetch")
    /\ retries' = DefaultRetries
    /\ api_pc' = "try"
    /\ attempt' = 0
    /\ response' = NoResponse
    /\ result' = <<>>
    /\ log' = <<>>
    /\ UNCHANGED <<start_date, end_date, i, data_frames, df, last_values, top_articles,
                   df_plot, exc>>

ApiReset ==
    /\ api_pc' = "idle"
    /\ attempt' = 0
    /\ response' = NoResponse
    /\ result' = <<>>
    /\ log' = <<>>
    /\ UNCHANGED retries

\* line 72: `not data or "items" not in data`
Skipped == IF result = <<>> THEN TRUE ELSE data.keys = {} \/ "items" \notin data.keys

\* lines 72-74: print the skip notice and continue with the next date
SkipDay ==
    /\ pc = "in_api"
    /\ api_pc = "returned"
    /\ Skipped
    /\ timeline' = Append(timeline, "skip")
    /\ i' = i + 1
    /\ pc' = "loop"
    /\ ApiReset
    /\ UNCHANGED <<start_date, end_date, data_frames, df, last_values,
                   top_articles, df_plot, exc>>

\* line 76 raises: data["items"][0] on an empty list, or ["articles"] on an
\* object without that key
DayRaises ==
    /\ pc = "in_api"
    /\ api_pc = "returned"
    /\ ~Skipped
    /\ \/ Len(data.items) = 0 /\ exc' = "IndexError"
       \/ Len(data.items) > 0 /\ "articles" \notin data.items[1].keys
                                /\ exc' = "KeyError: 'articles'"
    /\ pc' = "raised"
    /\ ApiReset
    /\ UNCHANGED <<start_date, end_date, i, data_frames, df, timeline, last_values,
                   top_articles, df_plot>>

\* lines 76-78
AppendDay ==
    /\ pc = "in_api"
    /\ api_pc = "returned"
    /\ ~Skipped
    /\ Len(data.items) > 0
    /\ "articles" \in data.items[1].keys
    /\ data_frames' = Append(data_frames, DayFrame(data, dates[i]))
    /\ pc' = "pause"
    /\ ApiReset
    /\ UNCHANGED <<start_date, end_date, i, df, timeline, last_values, top_articles,
                   df_plot, exc>>

\* line 79: time.sleep(0.1), then the next date
Pause ==
    /\ pc = "pause"
    /\ timeline' = Append(timeline, "pause")
    /\ i' = i + 1
    /\ pc' = "loop"
    /\ UNCHANGED apiVars
    /\ UNCHANGED <<start_date, end_date, data_frames, df, last_values, top_articles,
                   df_plot, exc>>

NoDataNever(frames) == FALSE

\* line 81: `not data_frames`
NoData(frames) == frames = <<>>

\* lines 81-82: the loop is over
LoopEnd ==
    /\ pc = "loop"
    /\ i > Len(dates)
    /\ IF NoData(data_frames)
       THEN pc' = "raised" /\ exc' = TotalDataLoss
       ELSE pc' = "select" /\ exc' = exc
    /\ UNCHANGED apiVars
    /\ UNCHANGED <<start_date, end_date, i, data_frames, df, timeline, last_values,
                   top_articles, df_plot>>

\* lines 84-128, the rest of main.  When every collected frame is empty the
\* concatenation has no "article" column and groupby("article") raises
\* KeyError; otherwise selection and densification run, then the second
\* "no data" check, then the statistics and the chart.
Process ==
    /\ pc = "select"
    /\ df' = Concat(data_frames)
    /\ IF df' = <<>>
       THEN /\ pc' = "raised"
            /\ exc' = "KeyError: 'article'"
            /\ UNCHANGED <<last_values, top_articles, df_plot>>
       ELSE /\ last_values' = LastValues(df')
            /\ top_articles' = TopArticles(last_values')
            /\ df_plot' = DfPlot(df', top_articles')
            /\ IF ValidViews(df', top_articles') = <<>>
               THEN pc' = "raised" /\ exc' = EmptyAfterFiltering
               ELSE pc' = "done" /\ exc' = exc
    /\ UNCHANGED apiVars
    /\ UNCHANGED <<start_date, end_date, i, data_frames, timeline>>

\* ------------------------------------------------------- specifications
\* main(start_date, end_date) for every range start_date <= end_date
Init ==
    /\ start_date \in 1..MaxDays
    /\ end_date \in start_date..MaxDays
    /\ pc = "loop"
    /\ i = 1
    /\ data_frames = <<>>
    /\ df = <<>>
    /\ timeline = <<>>
    /\ last_values = <<>>
    /\ top_articles = <<>>
    /\ df_plot = <<>>
    /\ exc = "none"
    /\ retries = DefaultRetries
    /\ api_pc = "idle"
    /\ attempt = 0
    /\ response = NoResponse
    /\ result = <<>>
    /\ log = <<>>

Next ==
    \/ LoopFetch
    \/ ApiSucceed
    \/ ApiFail
    \/ ApiSleep
    \/ ApiGiveUp
    \/ SkipDay
    \/ DayRaises
    \/ AppendDay
    \/ Pause
    \/ LoopEnd
    \/ Process

Spec == Init /\ [][Next]_vars

\* One call of __api__ on its own, for every retries
InitApi ==
    /\ retries \in 0..MaxRetries
    /\ api_pc = "try"
    /\ attempt = 0
    /\ response = NoResponse
    /\ result = <<>>
    /\ log = <<>>
    /\ start_date = 1
    /\ end_date = 1
    /\ pc = "api"
    /\ i = 1
    /\ data_frames = <<>>
    /\ df = <<>>
    /\ timeline = <<>>
    /\ last_values = <<>>
    /\ top_articles = <<>>
    /\ df_plot = <<>>
    /\ exc = "none"

NextApi ==
    \/ ApiSucceed
    \/ ApiFail
    \/ ApiSleep
    \/ ApiGiveUp

SpecApi == InitApi /\ [][NextApi]_vars

\* ------------------------------------------------------------ properties
Calls == Count(log, "call")
Sleeps == Count(log, "sleep")

\* C1: __api__ returns the payload decoded by the attempt that succeeded,
\* which is the last attempt it makes; when every attempt fails (transport
\* failure, non-2xx status, malformed JSON) it makes exactly `retries`
\* attempts and returns None; no exception leaves it.
FetcherContract ==
    /\ api_pc # "raised"
    /\ (api_pc = "returned" /\ result # <<>>) =>
          /\ response.status = "ok"
          /\ result = <<response.body>>
          /\ Calls = attempt + 1
          /\ Last(log) = "call"
    /\ (api_pc = "returned" /\ result = <<>>) =>
          /\ Calls = retries
          /\ attempt = retries
          /\ retries >= 1 => response.status \in FailureKinds

FetcherGaveUpAfterMalformedJson ==
    /\ api_pc = "returned"
    /\ result = <<>>
    /\ retries >= 2
    /\ Calls = retries
    /\ response.status = "ValueError"

\* C10: in one call of __api__ the calls and sleeps alternate, starting and
\* ending with a call: one sleep between two consecutive attempts, none after
\* the final failed attempt, none after a success; failing every attempt
\* costs `retries` calls and retries - 1 sleeps.
OneSleepBetweenAttempts ==
    /\ \A k \in 1..Len(log) : log[k] = (IF k % 2 = 1 THEN "call" ELSE "sleep")
    /\ api_pc = "sleep" => (Last(log) = "call" /\ attempt + 1 < retries)
    /\ (api_pc = "try" /\ 0 < attempt /\ attempt < retries) => Last(log) = "sleep"
    /\ (api_pc = "returned" /\ log # <<>>) => Last(log) = "call"
    /\ (api_pc = "returned" /\ result = <<>> /\ retries >= 1) =>
          (Calls = retries /\ Sleeps = retries - 1)

FetcherSleptBetweenAllAttempts ==
    /\ api_pc = "returned"
    /\ result = <<>>
    /\ retries = MaxRetries
    /\ Sleeps = retries - 1

\* ---- main
\* the collection loop has ended
LoopOver == pc \in {"select", "done", "raised"} \/ (pc = "loop" /\ i > Len(dates))
\* lines 84-103 have run: top_articles and df_plot are built
Selected == pc = "done" \/ (pc = "raised" /\ exc = EmptyAfterFiltering)
Densified == Selected
Fetches == Count(timeline, "fetch")

\* C2: a day whose fetch is absent or whose payload lacks the article-list
\* structure (no "items", an empty "items" list, a first item without
\* "articles") is skipped without raising and adds no frame, and the later
\* days are still fetched.
MalformedDayIsSkipped ==
    /\ exc \notin {"IndexError", "KeyError: 'articles'"}
    /\ (pc = "in_api" /\ api_pc = "returned" /\ result # <<>>
          /\ (Len(data.items) = 0 \/ "articles" \notin data.items[1].keys)) => Skipped
    /\ LoopOver => Fetches = Len(dates)

\* C3: when __api__ gives up on every day of the range, main ends with the
\* "total data loss" ValueError after trying every day, and never reaches
\* selection, densification or the chart.
AllDaysFailed == Count(timeline, "gave_up") = Len(dates)

TotalLossWhenAllFetchesFail ==
    (AllDaysFailed /\ pc \notin {"loop", "in_api"}) =>
        /\ pc = "raised"
        /\ exc = TotalDataLoss
        /\ Fetches = Len(dates)
        /\ last_values = <<>>
        /\ top_articles = <<>>
        /\ df_plot = <<>>

TotalLossRaised ==
    /\ AllDaysFailed
    /\ Len(dates) >= 2
    /\ pc = "raised"
    /\ exc = TotalDataLoss

\* C4: df_plot holds exactly one row for each (article, date) with article in
\* top_articles and date in [start_date, end_date], and no other row.
RowsOf(a, d) == {k \in 1..Len(df_plot) : df_plot[k].article = a /\ df_plot[k].date = d}

DenseSeriesComplete ==
    Densified =>
        /\ \A a \in Range(top_articles) : \A d \in start_date..end_date :
              Cardinality(RowsOf(a, d)) = 1
        /\ \A k \in 1..Len(df_plot) :
              /\ df_plot[k].article \in Range(top_articles)
              /\ df_plot[k].date \in start_date..end_date
        /\ Len(df_plot) = Len(top_articles) * (end_date - start_date + 1)

DenseSeriesOverGaps ==
    /\ pc = "done"
    /\ end_date - start_date = 2
    /\ Len(data_frames) = 1
    /\ Len(top_articles) = TopN
    /\ Len(df_plot) = 3 * TopN

\* C5: the value of df_plot at (article, date d) is the views of the
\* article's latest record with a present value on a date <= d, and NaN when
\* there is none; so nothing is filled before the first real observation and
\* a real observation is never changed.
LatestObserved(a, d) ==
    LET obs == {k \in 1..Len(df) : df[k].article = a /\ df[k].views # NaN /\ df[k].date <= d}
    IN IF obs = {} THEN NaN
       ELSE df[CHOOSE k \in obs : \A m \in obs : df[m].date <= df[k].date].views

ForwardFillIsLatestObserved ==
    Densified =>
        \A a \in Range(top_articles) : \A d \in start_date..end_date :
            /\ RowsOf(a, d) # {}
            /\ \A k \in RowsOf(a, d) : df_plot[k].views = LatestObserved(a, d)

SeriesOf(a) == SelectSeq(df_plot, LAMBDA r : r.article = a)

ForwardFilledExample ==
    /\ pc = "done"
    /\ start_date = 1
    /\ end_date = 3
    /\ Len(data_frames) = 2
    /\ Len(SeriesOf(1)) = 3
    /\ SeriesOf(1)[1].views = 10
    /\ SeriesOf(1)[2].views = 10
    /\ SeriesOf(1)[3].views = 30

\* C6: top_articles has exactly min(20, number of distinct articles of df)
\* entries, no article twice.
TopSetSize ==
    Selected =>
        /\ Len(top_articles) =
              (IF Cardinality(ArticlesOf(df)) < TopN THEN Cardinality(ArticlesOf(df)) ELSE TopN)
        /\ Cardinality(Range(top_articles)) = Len(top_articles)
        /\ Range(top_articles) \subseteq ArticlesOf(df)

TopSetCutWithNaNKeys ==
    /\ Selected
    /\ Cardinality(ArticlesOf(df)) > TopN
    /\ Len(top_articles) = TopN
    /\ \E k \in 1..Len(last_values) :
          last_values[k].views = NaN /\ last_values[k].article \in Range(top_articles)

\* C7 as stated: the ranking key of an article is the views of its record of
\* the greatest date, and no article outside top_articles has a greater key
\* than one inside.
KeyOf(a) == (CHOOSE r \in Range(last_values) : r.article = a).views

ViewsOfLastRecord(a) ==
    LET recs == {k \in 1..Len(df) : df[k].article = a}
    IN df[CHOOSE k \in recs : \A m \in recs : df[m].date <= df[k].date].views

RankingKeyIsLastRecord ==
    Selected =>
        /\ \A a \in ArticlesOf(df) : KeyOf(a) = ViewsOfLastRecord(a)
        /\ \A a \in ArticlesOf(df) \ Range(top_articles) : \A b \in Range(top_articles) :
              ~(ViewsOfLastRecord(a) > ViewsOfLastRecord(b))

\* C7 amended: the ranking key of an article is the views of its latest
\* record whose views is present (NaN when it has none), and no article
\* outside top_articles has a greater key than one inside, a NaN key being
\* below every present one.
RankingKeyIsLatestObserved ==
    Selected =>
        /\ {r.article : r \in Range(last_values)} = ArticlesOf(df)
        /\ \A a \in ArticlesOf(df) : KeyOf(a) = LatestObserved(a, end_date)
        /\ \A a \in ArticlesOf(df) \ Range(top_articles) : \A b \in Range(top_articles) :
              ~(KeyOf(a) > KeyOf(b))

RankedByEarlierObservation ==
    /\ Selected
    /\ 1 \in ArticlesOf(df)
    /\ ViewsOfLastRecord(1) = NaN
    /\ KeyOf(1) = 30
    /\ 1 \in Range(top_articles)
    /\ ArticlesOf(df) \ Range(top_articles) # {}

\* C8: when a day yielded data but every observation of the top set has
\* absent views, main ends with the "empty after filtering" ValueError; that
\* error and the "total data loss" error are distinct and are the only ways
\* a run aborts.
OnlyTwoAbortConditions ==
    /\ TotalDataLoss # EmptyAfterFiltering
    /\ pc = "raised" => exc \in {TotalDataLoss, EmptyAfterFiltering}
    /\ (pc \in {"done", "raised"} /\ data_frames # <<>>
          /\ \A k \in 1..Len(df) : df[k].views = NaN) => exc = EmptyAfterFiltering

\* C9: between the fetch of a day and the fetch of the next day there is
\* exactly one pause, whether the day was skipped or not.
PauseAfterEveryFetch ==
    \A j \in 1..Len(timeline) : \A k \in (j + 1)..Len(timeline) :
        (/\ timeline[j] = "fetch"
         /\ timeline[k] = "fetch"
         /\ \A m \in (j + 1)..(k - 1) : timeline[m] # "fetch")
        => Cardinality({m \in (j + 1)..(k - 1) : timeline[m] = "pause"}) = 1

====
